---- MODULE Spec2Model ----
(***************************************************************************)
(* CloudNest (src/app.py): the build/deploy orchestration core.            *)
(*                                                                         *)
(* The program is one asyncio event loop.  A coroutine gives up control    *)
(* only at an `await db.apps...`; the synchronous code between two awaits  *)
(* (git clone, docker build/run/stop, shutil.rmtree, pip install) runs     *)
(* without interleaving.  Each store operation takes effect at one point   *)
(* while its coroutine is suspended.  The model therefore has one action   *)
(* per store operation and one per synchronous segment that touches the    *)
(* file system or the container runtime.                                   *)
(*                                                                         *)
(* External steps: git clone, docker image build, container create/start,  *)
(* container stop/start/remove and pip install each either succeed or      *)
(* raise; containers.run also raises when the container name is taken.     *)
(* Store operations and shutil.rmtree do not raise.  A failed clone leaves *)
(* no directory behind.  Timestamps (created_at, updated_at, deployed_at)  *)
(* and the subdomain are left out.  The head of a branch may move between  *)
(* two clones of the same git_url.  The synchronous segment of delete_app  *)
(* is two steps, container then workspace, with no other step in between.  *)
(***************************************************************************)
EXTENDS Integers, Sequences, FiniteSets, TLC

(***************************************************************************)
(* Bounds                                                                  *)
(***************************************************************************)
MaxRequests == 2      \* requests the API accepts in one run
MaxApps == 2          \* app ids secrets.token_urlsafe hands out
MaxInFlight == 2      \* request handlers being served at the same time

\* app ids are opaque tokens; the model numbers them
AppIds == 1..MaxApps
Users == {"u1", "u2"}     \* authenticated callers
Owners == {"u1"}          \* the callers that create apps
Names == {"demo"}

(***************************************************************************)
(* Repositories a git_url/branch can point at, and the files a clone of    *)
(* each one puts into the workspace.                                       *)
(***************************************************************************)
AllFiles == {"Dockerfile", "package.json", "requirements.txt", "app.py",
             "bot.py", "index.html", "README.md"}
Repos == {"r_docker", "r_pybot", "r_plain"}
RepoFiles(r) ==
    CASE r = "r_docker" -> {"Dockerfile", "package.json", "README.md"}
      [] r = "r_pybot"  -> {"requirements.txt", "bot.py"}
      [] r = "r_app"    -> {"app.py"}
      [] r = "r_node"   -> {"package.json", "index.html"}
      [] r = "r_plain"  -> {"bot.py", "README.md"}
      [] OTHER          -> {}
\* the head of a branch moves between two clones: the revisions a clone of
\* the repository can find
Revisions(r) ==
    IF r = "r_pybot" THEN {RepoFiles(r), {"app.py"}} ELSE {RepoFiles(r)}
EnvChoices == {"PORT=8080"}

None == <<>>
Some(x) == <<x>>
NoError == "null"
NoType == "null"

VARIABLES
    apps,           \* db.apps: _id -> document
    fs,             \* BASE_DEPLOY_PATH: <<user_id, name>> -> files of the workspace
    containers,     \* container runtime: container id -> [name, state, environment, restart_policy]
    nextCid,        \* next id the runtime assigns
    docker_client,  \* TRUE iff docker.from_env() succeeded at import
    tasks,          \* build_and_deploy_app coroutines in flight
    triggered,      \* app id -> number of add_task(build_and_deploy_app, ...) so far
    usedIds,        \* app ids already produced by secrets.token_urlsafe
    reqs,           \* frames of the request handlers being served
    served,         \* number of requests accepted so far
    response        \* the last response sent to a caller

vars == <<apps, fs, containers, nextCid, docker_client, tasks, triggered, usedIds, reqs, served, response>>

StatusVocabulary == {"pending", "building", "running", "deployed", "unknown-type", "stopped", "failed"}

(***************************************************************************)
(* detect_app_type                                                         *)
(***************************************************************************)
\* the bot.py test hoisted out of the Python branch
detect_app_type_BotFirst(files) ==
    IF "Dockerfile" \in files THEN "docker"
    ELSE IF "package.json" \in files THEN "nodejs"
    ELSE IF "bot.py" \in files THEN "telegram-bot"
    ELSE IF "requirements.txt" \in files \/ "app.py" \in files THEN "python"
    ELSE IF "index.html" \in files THEN "static"
    ELSE "unknown"

\* the package.json test placed above the Dockerfile test
detect_app_type_NodeFirst(files) ==
    IF "package.json" \in files THEN "nodejs"
    ELSE IF "Dockerfile" \in files THEN "docker"
    ELSE IF "requirements.txt" \in files \/ "app.py" \in files
         THEN IF "bot.py" \in files THEN "telegram-bot" ELSE "python"
    ELSE IF "index.html" \in files THEN "static"
    ELSE "unknown"

\* the Python branch testing requirements.txt only, app.py forgotten
detect_app_type_NoAppPy(files) ==
    IF "Dockerfile" \in files THEN "docker"
    ELSE IF "package.json" \in files THEN "nodejs"
    ELSE IF "requirements.txt" \in files
         THEN IF "bot.py" \in files THEN "telegram-bot" ELSE "python"
    ELSE IF "index.html" \in files THEN "static"
    ELSE "unknown"

detect_app_type(files) ==
    IF "Dockerfile" \in files THEN "docker"
    ELSE IF "package.json" \in files THEN "nodejs"
    ELSE IF "requirements.txt" \in files \/ "app.py" \in files
         THEN IF "bot.py" \in files THEN "telegram-bot" ELSE "python"
    ELSE IF "index.html" \in files THEN "static"
    ELSE "unknown"

(***************************************************************************)
(* Store primitives (motor collection db.apps)                             *)
(***************************************************************************)
\* the filter without its user_id part
FindOwned_AnyUser(app_id, user_id) ==
    IF app_id \in DOMAIN apps THEN Some(apps[app_id]) ELSE None

\* find_one({"_id": app_id, "user_id": user_id})
FindOwned(app_id, user_id) ==
    IF app_id \in DOMAIN apps /\ apps[app_id].user_id = user_id
    THEN Some(apps[app_id]) ELSE None

\* find_one({"name": name, "user_id": user_id})
FindByName(name, user_id) ==
    {a \in DOMAIN apps : apps[a].name = name /\ apps[a].user_id = user_id}

\* update_one({"_id": app_id}, {"$set": set}): no document, no effect
UpdateOne(app_id, set) ==
    IF app_id \in DOMAIN apps
    THEN [apps EXCEPT ![app_id] = set @@ @]
    ELSE apps

\* delete_one({"_id": app_id})
DeleteOne(app_id) == [a \in DOMAIN apps \ {app_id} |-> apps[a]]

\* shutil.rmtree(path) guarded by os.path.exists(path)
RmTree(files, path) == [p \in DOMAIN files \ {path} |-> files[p]]

RepoPath(user_id, name) == <<user_id, name>>

\* app_id[:8]; the ids of the model are shorter than 8 characters
Prefix8(app_id) == app_id
ContainerName(name, app_id) == <<"cloudnest-", name, "-", Prefix8(app_id)>>
\* the tag written without its version part
ImageTag_NoLatest(name) == <<"cloudnest/", name>>
ImageTag(name) == <<"cloudnest/", name, ":latest">>

(***************************************************************************)
(* build_and_deploy_app: the frame of one invocation                       *)
(*   app_id, user_id  the arguments                                        *)
(*   seq              its rank among the invocations triggered for app_id  *)
(*   pc               the await or synchronous segment it is at            *)
(*   app              the fields of the document read at line 290          *)
(*   app_type         local app_type (line 311)                            *)
(*   container_info   local container_info (line 339)                      *)
(*   err              str(e) of the exception caught at line 393           *)
(***************************************************************************)
NewTask(app_id, user_id, seq) ==
    [app_id |-> app_id, user_id |-> user_id, seq |-> seq, pc |-> "find",
     app |-> None, app_type |-> NoType, container_info |-> None, err |-> NoError]

Replace(t, t2) == (tasks \ {t}) \cup {t2}

\* the $set documents of the update_one calls
BuildingSet == [status |-> "building"]
TypeSet(app_type) == [app_type |-> app_type]
RunningSet(container_info) == [status |-> "running", container |-> Some(container_info)]
\* the Python branch reporting the status of the container branch
DeployedSet_AsRunning == [status |-> "running"]
DeployedSet == [status |-> "deployed"]
UnknownTypeSet == [status |-> "unknown-type"]
\* the except clause storing str(e) without the status
FailedSet_ErrorOnly(e) == [error |-> e]
\* the except clause forgetting to store str(e)
FailedSet_NoError(e) == [status |-> "failed"]
FailedSet(e) == [status |-> "failed", error |-> e]

\* where an exception raised inside the try block goes: the except clause
Raise(t, e) == [t EXCEPT !.pc = "set_failed", !.err = e]

\* line 290-292: find_one; "App not found" is raised inside the try block
bd_find(t) ==
    /\ t.pc = "find"
    /\ LET app == FindOwned(t.app_id, t.user_id) IN
         tasks' = Replace(t,
            IF app = None
            THEN Raise(t, "App not found")
            ELSE [t EXCEPT !.pc = "set_building",
                           !.app = Some([name |-> app[1].name, git_url |-> app[1].git_url,
                                         env_vars |-> app[1].env_vars])])
    /\ UNCHANGED <<apps, fs, containers, nextCid, docker_client, triggered, usedIds, reqs, served, response>>

\* line 295-298
bd_set_building(t) ==
    /\ t.pc = "set_building"
    /\ apps' = UpdateOne(t.app_id, BuildingSet)
    /\ tasks' = Replace(t, [t EXCEPT !.pc = "clone"])
    /\ UNCHANGED <<fs, containers, nextCid, docker_client, triggered, usedIds, reqs, served, response>>

\* line 300-311: rmtree, git clone, detect_app_type, in one synchronous segment
bd_clone(t) ==
    /\ t.pc = "clone"
    /\ LET repo_path == RepoPath(t.user_id, t.app[1].name)
           removed == RmTree(fs, repo_path)
       IN \E ok \in BOOLEAN, files \in Revisions(t.app[1].git_url) :
            IF ok
            THEN /\ fs' = (repo_path :> files) @@ removed
                 /\ tasks' = Replace(t, [t EXCEPT !.pc = "set_type",
                                                  !.app_type = detect_app_type(files)])
            ELSE /\ fs' = removed
                 /\ tasks' = Replace(t, Raise(t, "clone failed"))
    /\ UNCHANGED <<apps, containers, nextCid, docker_client, triggered, usedIds, reqs, served, response>>

\* line 319, 357, 380: which build strategy the dispatch takes
Strategy(app_type, client) ==
    IF app_type = "docker" /\ client THEN "container"
    ELSE IF app_type \in {"python", "telegram-bot"} THEN "python"
    ELSE "default"

\* line 313-316; the else branch of the dispatch (line 380) builds nothing and goes
\* straight to its update_one
bd_set_type(t) ==
    /\ t.pc = "set_type"
    /\ apps' = UpdateOne(t.app_id, TypeSet(t.app_type))
    /\ tasks' = Replace(t, [t EXCEPT !.pc = IF Strategy(t.app_type, docker_client) = "default"
                                             THEN "set_unknown" ELSE "build"])
    /\ UNCHANGED <<fs, containers, nextCid, docker_client, triggered, usedIds, reqs, served, response>>

\* line 324-343: images.build then containers.run
bd_build_container(t) ==
    /\ t.pc = "build"
    /\ Strategy(t.app_type, docker_client) = "container"
    /\ LET repo_path == RepoPath(t.user_id, t.app[1].name)
           name == ContainerName(t.app[1].name, t.app_id)
           image_tag == ImageTag(t.app[1].name)
           buildable == repo_path \in DOMAIN fs /\ "Dockerfile" \in fs[repo_path]
           conflict == \E c \in DOMAIN containers : containers[c].name = name
           c == [name |-> name, image |-> image_tag, environment |-> t.app[1].env_vars,
                 restart_policy |-> "unless-stopped", state |-> "running"]
       IN \E outcome \in {"ok", "build_failed", "create_failed", "start_failed"} :
            /\ outcome \in {"ok", "start_failed"} => buildable /\ ~conflict
            /\ outcome = "create_failed" => buildable
            /\ CASE outcome = "ok" ->
                      /\ containers' = (nextCid :> c) @@ containers
                      /\ nextCid' = nextCid + 1
                      /\ tasks' = Replace(t, [t EXCEPT !.pc = "set_running",
                              !.container_info = Some([id |-> nextCid, name |-> name, image |-> image_tag])])
                 [] outcome = "start_failed" ->
                      /\ containers' = (nextCid :> [c EXCEPT !.state = "created"]) @@ containers
                      /\ nextCid' = nextCid + 1
                      /\ tasks' = Replace(t, Raise(t, "run failed"))
                 [] outcome = "create_failed" ->
                      /\ tasks' = Replace(t, Raise(t, "run failed"))
                      /\ UNCHANGED <<containers, nextCid>>
                 [] OTHER ->
                      /\ tasks' = Replace(t, Raise(t, "build failed"))
                      /\ UNCHANGED <<containers, nextCid>>
    /\ UNCHANGED <<apps, fs, docker_client, triggered, usedIds, reqs, served, response>>

\* line 357-367: pip install -r requirements.txt when the file exists
bd_build_python(t) ==
    /\ t.pc = "build"
    /\ Strategy(t.app_type, docker_client) = "python"
    /\ LET repo_path == RepoPath(t.user_id, t.app[1].name)
           install == repo_path \in DOMAIN fs /\ "requirements.txt" \in fs[repo_path]
       IN \E ok \in BOOLEAN :
            /\ ~install => ok
            /\ tasks' = Replace(t, IF ok THEN [t EXCEPT !.pc = "set_deployed"]
                                         ELSE Raise(t, "pip failed"))
    /\ UNCHANGED <<apps, fs, containers, nextCid, docker_client, triggered, usedIds, reqs, served, response>>

\* the last update_one of an invocation; the coroutine returns after it
Finish(t, set) ==
    /\ apps' = UpdateOne(t.app_id, set)
    /\ tasks' = tasks \ {t}
    /\ UNCHANGED <<fs, containers, nextCid, docker_client, triggered, usedIds, reqs, served, response>>

\* line 345-355
bd_set_running(t) == t.pc = "set_running" /\ Finish(t, RunningSet(t.container_info[1]))
\* line 369-378
bd_set_deployed(t) == t.pc = "set_deployed" /\ Finish(t, DeployedSet)
\* line 381-389
bd_set_unknown(t) == t.pc = "set_unknown" /\ Finish(t, UnknownTypeSet)
\* line 393-404
bd_set_failed(t) == t.pc = "set_failed" /\ Finish(t, FailedSet(t.err))

(***************************************************************************)
(* Request handlers.  A frame holds what a handler suspended at an await   *)
(* has read so far:                                                        *)
(*   n          tells apart two frames that are otherwise equal            *)
(*   kind, pc   the handler and the await or segment it is at              *)
(*   user       str(user["_id"]) of the authenticated caller               *)
(*   app_id     the app id of the request (create_app: the fresh token)    *)
(*   app        the document read by find_one (create_app: app_doc)        *)
(***************************************************************************)
Frame(kind, pc, user, app_id, app) ==
    [n |-> 1, kind |-> kind, pc |-> pc, user |-> user, app_id |-> app_id, app |-> Some(app)]

\* return {...} or raise HTTPException(status_code, detail)
Return(kind, user, app_id, code, message) ==
    [kind |-> kind, user |-> user, app_id |-> app_id, code |-> code, message |-> message]
NoResponse == Return("none", "", 0, 0, "")

\* a request arrives and runs up to its first await
Accept == served < MaxRequests /\ served' = served + 1
Suspend(f) ==
    /\ Cardinality(reqs) < MaxInFlight
    /\ reqs' = reqs \cup {IF f \in reqs THEN [f EXCEPT !.n = 2] ELSE f}

At(f, kind, pc) == f \in reqs /\ f.kind = kind /\ f.pc = pc
Step(f, pc) == reqs' = (reqs \ {f}) \cup {[f EXCEPT !.pc = pc]}
Reply(f, code, message) ==
    /\ reqs' = reqs \ {f}
    /\ response' = Return(f.kind, f.user, f.app_id, code, message)

\* line 602-613
AppDoc(name, user_id, git_url, env_vars) ==
    [name |-> name, user_id |-> user_id, git_url |-> git_url, env_vars |-> env_vars,
     status |-> "pending", container |-> None, error |-> NoError, app_type |-> NoType]

\* secrets.token_urlsafe(16): a token never handed out before
FreshId == CHOOSE id \in AppIds \ usedIds : \A other \in AppIds \ usedIds : id <= other

\* line 594-613: the uniqueness check, then the document is prepared
create_app_find(u, name, git_url, env_vars) ==
    /\ Accept
    /\ IF FindByName(name, u) # {}
       THEN /\ response' = Return("create_app", u, 0, 400, "App with this name already exists")
            /\ UNCHANGED <<usedIds, reqs>>
       ELSE /\ AppIds \ usedIds # {}
            /\ Suspend(Frame("create_app", "insert_one", u, FreshId, AppDoc(name, u, git_url, env_vars)))
            /\ usedIds' = usedIds \cup {FreshId}
            /\ UNCHANGED response
    /\ UNCHANGED <<apps, fs, containers, nextCid, docker_client, tasks, triggered>>

\* line 615-626: insert_one, then the deployment is started in the background
create_app_insert(f) ==
    /\ At(f, "create_app", "insert_one")
    /\ apps' = (f.app_id :> f.app[1]) @@ apps
    /\ tasks' = tasks \cup {NewTask(f.app_id, f.user, triggered[f.app_id] + 1)}
    /\ triggered' = [triggered EXCEPT ![f.app_id] = @ + 1]
    /\ Reply(f, 200, "App created successfully. Deployment started.")
    /\ UNCHANGED <<fs, containers, nextCid, docker_client, usedIds, served>>

\* line 628-639
deploy_app(u, app_id) ==
    /\ Accept
    /\ IF FindOwned(app_id, u) = None
       THEN /\ response' = Return("deploy_app", u, app_id, 404, "App not found")
            /\ UNCHANGED <<tasks, triggered>>
       ELSE /\ tasks' = tasks \cup {NewTask(app_id, u, triggered[app_id] + 1)}
            /\ triggered' = [triggered EXCEPT ![app_id] = @ + 1]
            /\ response' = Return("deploy_app", u, app_id, 200, "Deployment started")
    /\ UNCHANGED <<apps, fs, containers, nextCid, docker_client, usedIds, reqs>>

\* what stop_app, start_app and delete_app keep of the document they read
Read(app) == [name |-> app.name, container |-> app.container]

\* a missing container or a missing runtime treated as an error
control_find_NoRuntimeFails(op, u, app_id, none_message) ==
    /\ Accept
    /\ LET app == FindOwned(app_id, u)
       IN IF app = None
          THEN /\ response' = Return(op, u, app_id, 404, "App not found")
               /\ UNCHANGED reqs
          ELSE IF app[1].container # None /\ docker_client
          THEN /\ Suspend(Frame(op, "docker", u, app_id, Read(app[1])))
               /\ UNCHANGED response
          ELSE /\ response' = Return(op, u, app_id, 500, "Docker not available")
               /\ UNCHANGED reqs
    /\ UNCHANGED <<apps, fs, containers, nextCid, docker_client, tasks, triggered, usedIds>>

\* line 645-649 and 663 (stop_app), 669-673 and 687 (start_app)
control_find(op, u, app_id, none_message) ==
    /\ Accept
    /\ LET app == FindOwned(app_id, u)
       IN IF app = None
          THEN /\ response' = Return(op, u, app_id, 404, "App not found")
               /\ UNCHANGED reqs
          ELSE IF app[1].container # None /\ docker_client
          THEN /\ Suspend(Frame(op, "docker", u, app_id, Read(app[1])))
               /\ UNCHANGED response
          ELSE /\ response' = Return(op, u, app_id, 200, none_message)
               /\ UNCHANGED reqs
    /\ UNCHANGED <<apps, fs, containers, nextCid, docker_client, tasks, triggered, usedIds>>

\* the except clause recording the failure in the record
control_docker_MarksFailed(op, f, state, fail_message) ==
    /\ At(f, op, "docker")
    /\ LET id == f.app[1].container[1].id
       IN \E ok \in BOOLEAN :
            /\ ok => id \in DOMAIN containers
            /\ IF ok
               THEN /\ containers' = [containers EXCEPT ![id].state = state]
                    /\ Step(f, "update_one")
                    /\ UNCHANGED <<apps, response>>
               ELSE /\ Reply(f, 500, fail_message)
                    /\ apps' = UpdateOne(f.app_id, [status |-> "failed"])
                    /\ UNCHANGED containers
    /\ UNCHANGED <<fs, nextCid, docker_client, tasks, triggered, usedIds, served>>

\* line 651-652 (stop), 675-676 (start): containers.get(id), then stop() or start()
control_docker(op, f, state, fail_message) ==
    /\ At(f, op, "docker")
    /\ LET id == f.app[1].container[1].id
       IN \E ok \in BOOLEAN :
            /\ ok => id \in DOMAIN containers
            /\ IF ok
               THEN /\ containers' = [containers EXCEPT ![id].state = state]
                    /\ Step(f, "update_one")
                    /\ UNCHANGED response
               ELSE /\ Reply(f, 500, fail_message)
                    /\ UNCHANGED containers
    /\ UNCHANGED <<apps, fs, nextCid, docker_client, tasks, triggered, usedIds, served>>

\* line 654-659 (stop), 678-683 (start)
control_update(op, f, status, message) ==
    /\ At(f, op, "update_one")
    /\ apps' = UpdateOne(f.app_id, [status |-> status])
    /\ Reply(f, 200, message)
    /\ UNCHANGED <<fs, containers, nextCid, docker_client, tasks, triggered, usedIds, served>>

stop_app_find(u, app_id) == control_find("stop_app", u, app_id, "No running container found")
stop_app_docker(f) == control_docker("stop_app", f, "exited", "Failed to stop app")
stop_app_update(f) == control_update("stop_app", f, "stopped", "App stopped successfully")

start_app_find(u, app_id) == control_find("start_app", u, app_id, "No container found")
start_app_docker(f) == control_docker("start_app", f, "running", "Failed to start app")
start_app_update(f) == control_update("start_app", f, "running", "App started successfully")

\* line 710-726: the fields of the document are returned; the model keeps
\* the status
get_app_status(u, app_id) ==
    /\ Accept
    /\ LET app == FindOwned(app_id, u)
       IN response' = IF app = None
                      THEN Return("get_app_status", u, app_id, 404, "App not found")
                      ELSE Return("get_app_status", u, app_id, 200, app[1].status)
    /\ UNCHANGED <<apps, fs, containers, nextCid, docker_client, tasks, triggered, usedIds, reqs>>

\* line 728-748: container.logs(tail=100); an exception becomes the one log
\* line "Error fetching logs: ..."
get_app_logs(u, app_id) ==
    /\ Accept
    /\ LET app == FindOwned(app_id, u)
       IN IF app = None
          THEN response' = Return("get_app_logs", u, app_id, 404, "App not found")
          ELSE IF app[1].container # None /\ docker_client
          THEN \E ok \in BOOLEAN :
                 /\ ok => app[1].container[1].id \in DOMAIN containers
                 /\ response' = Return("get_app_logs", u, app_id, 200,
                                        IF ok THEN "logs" ELSE "Error fetching logs")
          ELSE response' = Return("get_app_logs", u, app_id, 200, "")
    /\ UNCHANGED <<apps, fs, containers, nextCid, docker_client, tasks, triggered, usedIds, reqs>>

\* line 754-756
delete_app_find(u, app_id) ==
    /\ Accept
    /\ LET app == FindOwned(app_id, u)
       IN IF app = None
          THEN /\ response' = Return("delete_app", u, app_id, 404, "App not found")
               /\ UNCHANGED reqs
          ELSE /\ Suspend(Frame("delete_app", "remove", u, app_id, Read(app[1])))
               /\ UNCHANGED response
    /\ UNCHANGED <<apps, fs, containers, nextCid, docker_client, tasks, triggered, usedIds>>

\* the exception of the container removal escaping as an error response
delete_app_remove_Fatal(f) ==
    /\ At(f, "delete_app", "remove")
    /\ LET container == f.app[1].container
       IN IF container # None /\ docker_client
          THEN \E ok \in BOOLEAN :
                 /\ ok => container[1].id \in DOMAIN containers
                 /\ IF ok
                    THEN /\ containers' = [c \in DOMAIN containers \ {container[1].id} |-> containers[c]]
                         /\ Step(f, "rmtree")
                         /\ UNCHANGED response
                    ELSE /\ Reply(f, 500, "Failed to delete app")
                         /\ UNCHANGED containers
          ELSE /\ Step(f, "rmtree")
               /\ UNCHANGED <<containers, response>>
    /\ UNCHANGED <<apps, fs, nextCid, docker_client, tasks, triggered, usedIds, served>>

\* line 758-765: best-effort stop and remove of the container; an exception
\* is logged and the handler goes on
delete_app_remove(f) ==
    /\ At(f, "delete_app", "remove")
    /\ LET container == f.app[1].container
       IN IF container # None /\ docker_client
          THEN \E outcome \in {"removed", "stop_failed", "remove_failed"} :
                 /\ outcome \in {"removed", "remove_failed"} => container[1].id \in DOMAIN containers
                 /\ containers' =
                      CASE outcome = "removed" ->
                             [c \in DOMAIN containers \ {container[1].id} |-> containers[c]]
                        [] outcome = "remove_failed" ->
                             [containers EXCEPT ![container[1].id].state = "exited"]
                        [] OTHER -> containers
          ELSE UNCHANGED containers
    /\ Step(f, "rmtree")
    /\ UNCHANGED <<apps, fs, nextCid, docker_client, tasks, triggered, usedIds, served, response>>

\* line 767-770: the workspace is removed, in the same synchronous segment
delete_app_rmtree(f) ==
    /\ At(f, "delete_app", "rmtree")
    /\ fs' = RmTree(fs, RepoPath(f.user, f.app[1].name))
    /\ Step(f, "delete_one")
    /\ UNCHANGED <<apps, containers, nextCid, docker_client, tasks, triggered, usedIds, served, response>>

\* line 773-775
delete_app_delete_one(f) ==
    /\ At(f, "delete_app", "delete_one")
    /\ apps' = DeleteOne(f.app_id)
    /\ Reply(f, 200, "App deleted successfully")
    /\ UNCHANGED <<fs, containers, nextCid, docker_client, tasks, triggered, usedIds, served>>

(***************************************************************************)
(* The system                                                              *)
(***************************************************************************)
Init ==
    /\ apps = <<>>
    /\ fs = <<>>
    /\ containers = <<>>
    /\ nextCid = 1
    /\ docker_client \in BOOLEAN
    /\ tasks = {}
    /\ triggered = [a \in AppIds |-> 0]
    /\ usedIds = {}
    /\ reqs = {}
    /\ served = 0
    /\ response = NoResponse

\* no handler is inside the synchronous segment of line 758-770: between
\* the container removal and the rmtree no other coroutine runs
EventLoopFree == \A f \in reqs : f.pc # "rmtree"

Next ==
    \/ \E t \in tasks : EventLoopFree /\ bd_find(t)
    \/ \E t \in tasks : EventLoopFree /\ bd_set_building(t)
    \/ \E t \in tasks : EventLoopFree /\ bd_clone(t)
    \/ \E t \in tasks : EventLoopFree /\ bd_set_type(t)
    \/ \E t \in tasks : EventLoopFree /\ bd_build_container(t)
    \/ \E t \in tasks : EventLoopFree /\ bd_build_python(t)
    \/ \E t \in tasks : EventLoopFree /\ bd_set_running(t)
    \/ \E t \in tasks : EventLoopFree /\ bd_set_deployed(t)
    \/ \E t \in tasks : EventLoopFree /\ bd_set_unknown(t)
    \/ \E t \in tasks : EventLoopFree /\ bd_set_failed(t)
    \/ \E u \in Owners, name \in Names, git_url \in Repos, env_vars \in EnvChoices :
          EventLoopFree /\ create_app_find(u, name, git_url, env_vars)
    \/ \E f \in reqs : EventLoopFree /\ create_app_insert(f)
    \/ \E u \in Users, app_id \in AppIds : EventLoopFree /\ deploy_app(u, app_id)
    \/ \E u \in Users, app_id \in AppIds : EventLoopFree /\ stop_app_find(u, app_id)
    \/ \E f \in reqs : EventLoopFree /\ stop_app_docker(f)
    \/ \E f \in reqs : EventLoopFree /\ stop_app_update(f)
    \/ \E u \in Users, app_id \in AppIds : EventLoopFree /\ start_app_find(u, app_id)
    \/ \E f \in reqs : EventLoopFree /\ start_app_docker(f)
    \/ \E f \in reqs : EventLoopFree /\ start_app_update(f)
    \/ \E u \in Users, app_id \in AppIds : EventLoopFree /\ get_app_status(u, app_id)
    \/ \E u \in Users, app_id \in AppIds : EventLoopFree /\ get_app_logs(u, app_id)
    \/ \E u \in Users, app_id \in AppIds : EventLoopFree /\ delete_app_find(u, app_id)
    \/ \E f \in reqs : EventLoopFree /\ delete_app_remove(f)
    \/ \E f \in reqs : delete_app_rmtree(f)
    \/ \E f \in reqs : EventLoopFree /\ delete_app_delete_one(f)

Spec == Init /\ [][Next]_vars

(***************************************************************************)
(* Scheduling: the event loop runs every coroutine that is ready, so a     *)
(* build_and_deploy_app invocation that can take its next step takes it,   *)
(* and the synchronous segment of delete_app runs to its end.              *)
(***************************************************************************)
TaskStep ==
    \E t \in tasks :
        /\ EventLoopFree
        /\ \/ bd_find(t) \/ bd_set_building(t) \/ bd_clone(t) \/ bd_set_type(t)
           \/ bd_build_container(t) \/ bd_build_python(t)
           \/ bd_set_running(t) \/ bd_set_deployed(t) \/ bd_set_unknown(t) \/ bd_set_failed(t)

FairSpec ==
    /\ Spec
    /\ WF_vars(TaskStep)
    /\ WF_vars(\E f \in reqs : delete_app_rmtree(f))

TypeOK ==
    /\ DOMAIN apps \subseteq AppIds
    /\ \A a \in DOMAIN apps : apps[a].status \in StatusVocabulary
    /\ served \in 0..MaxRequests
    /\ Cardinality(reqs) <= MaxInFlight

(***************************************************************************)
(* build_and_deploy_app called on its own, with an app id and a user id    *)
(* that match no record, next to everything the API does.                  *)
(***************************************************************************)
\* line 287: the coroutine is started with arguments no route checked; a
\* call counts as one of the requests of the run
bd_call(app_id, user_id) ==
    /\ Accept
    /\ FindOwned(app_id, user_id) = None
    /\ tasks' = tasks \cup {NewTask(app_id, user_id, triggered[app_id] + 1)}
    /\ triggered' = [triggered EXCEPT ![app_id] = @ + 1]
    /\ UNCHANGED <<apps, fs, containers, nextCid, docker_client, usedIds, reqs, response>>

OwnerNext ==
    \/ Next
    \/ \E u \in Users, app_id \in AppIds : EventLoopFree /\ bd_call(app_id, u)

OwnerSpec == Init /\ [][OwnerNext]_vars

(***************************************************************************)
(* detect_app_type on its own: the call of line 311 on a workspace that    *)
(* holds any set of files.                                                 *)
(***************************************************************************)
Workspace(t) == fs[RepoPath(t.user_id, t.app[1].name)]

\* line 311: app_type = detect_app_type(repo_path)
bd_detect(t) ==
    /\ t.pc = "detect"
    /\ tasks' = Replace(t, [t EXCEPT !.pc = "set_type", !.app_type = detect_app_type(Workspace(t))])
    /\ UNCHANGED <<apps, fs, containers, nextCid, docker_client, triggered, usedIds, reqs, served, response>>

DetectInit ==
    /\ apps = <<>>
    /\ \E files \in SUBSET AllFiles : fs = (RepoPath("u1", "demo") :> files)
    /\ containers = <<>>
    /\ nextCid = 1
    /\ docker_client \in BOOLEAN
    /\ tasks = {[NewTask(1, "u1", 1) EXCEPT
                    !.pc = "detect",
                    !.app = Some([name |-> "demo", git_url |-> "r_plain", env_vars |-> "PORT=8080"])]}
    /\ triggered = [a \in AppIds |-> 0]
    /\ usedIds = {}
    /\ reqs = {}
    /\ served = 0
    /\ response = NoResponse

DetectNext == \E t \in tasks : bd_detect(t)

DetectSpec == DetectInit /\ [][DetectNext]_vars

(***************************************************************************)
(* Vocabulary of the properties                                            *)
(***************************************************************************)
Markers == {"Dockerfile", "package.json", "requirements.txt", "app.py", "index.html"}
TasksOf(a) == {t \in tasks : t.app_id = a}
\* between its 'building' write and its final status write
Building(t) ==
    \/ t.pc \in {"clone", "set_type", "build", "set_running", "set_deployed", "set_unknown"}
    \/ t.pc = "set_failed" /\ t.err # "App not found"
\* the invocation t returns in this step
Returns(t) == t \in tasks /\ ~ \E t2 \in tasks' : t2.app_id = t.app_id /\ t2.seq = t.seq
\* a request of this kind for app a arrives in this step
Issued(kind, a) ==
    /\ served' = served + 1
    /\ \/ \E f \in reqs' \ reqs : f.kind = kind /\ f.app_id = a
       \/ reqs' = reqs /\ response'.kind = kind /\ response'.app_id = a

\* C1: in every reachable state a record has a container descriptor if and
\* only if its status is 'running' or 'stopped'.
C1_ContainerIffRunningOrStopped ==
    \A a \in DOMAIN apps :
        (apps[a].container # None) <=> (apps[a].status \in {"running", "stopped"})

\* C2: every change of a record's status follows the status state machine:
\* any status to 'building' (a deploy), 'building' to one of 'running',
\* 'deployed', 'unknown-type', 'failed', 'running' to 'stopped' and 'stopped'
\* to 'running'; no other change of status occurs.
StatusEdge(old, new) ==
    \/ new = "building"
    \/ old = "building" /\ new \in {"running", "deployed", "unknown-type", "failed"}
    \/ old = "running" /\ new = "stopped"
    \/ old = "stopped" /\ new = "running"
C2_StatusStateMachine ==
    [][\A a \in DOMAIN apps \cap DOMAIN apps' :
          apps[a].status # apps'[a].status => StatusEdge(apps[a].status, apps'[a].status)]_vars

\* C3: for every app id at most one build_and_deploy_app invocation is
\* between its 'building' write and its final status write.
C3_OneDeployInFlight ==
    \A a \in AppIds : Cardinality({t \in TasksOf(a) : Building(t)}) <= 1

\* C4: once the concurrent deploys of an app have all returned, status,
\* error and container descriptor of the record are those written by the
\* later-triggered invocation: an earlier-triggered invocation that returns
\* last does not alter the settled record it finds.
Outcome(doc) == <<doc.status, doc.error, doc.container>>
C4_LaterDeployWins ==
    [][\A t \in tasks :
          (/\ Returns(t) /\ TasksOf(t.app_id)' = {}
           /\ t.app_id \in DOMAIN apps'
           /\ apps[t.app_id].status # "building")
              => \/ t.seq = triggered[t.app_id]
                 \/ Outcome(apps'[t.app_id]) = Outcome(apps[t.app_id])]_vars

\* C5: a stop_app, start_app or delete_app request of the owner that arrives
\* while a deploy of the same app is in flight is rejected with a conflict
\* and changes neither the record, nor the workspace, nor any container.
C5_ControlRejectedDuringDeploy ==
    [][\A a \in DOMAIN apps, kind \in {"stop_app", "start_app", "delete_app"} :
          (Issued(kind, a) /\ TasksOf(a) # {} /\ \E f \in (reqs' \ reqs) \cup {response'} : f.user = apps[a].user_id)
              => /\ reqs' = reqs
                 /\ response'.code = 409
                 /\ UNCHANGED <<apps, fs, containers>>]_vars

\* C6: a deploy whose git clone fails leaves the record with status 'failed',
\* a non-empty error message and no container descriptor, on a first deploy
\* and on a redeploy.
C6_FetchFailureLeavesNoContainer ==
    [][\A t \in tasks :
          (Returns(t) /\ t.err = "clone failed" /\ t.app_id \in DOMAIN apps')
              => /\ apps'[t.app_id].status = "failed"
                 /\ apps'[t.app_id].error \notin {NoError, ""}
                 /\ apps'[t.app_id].container = None]_vars

\* C7: a failure raised at any step inside build_and_deploy_app is caught:
\* the invocation goes to the except clause, and when it returns the record,
\* if it still exists, has status 'failed' and the message in its error field.
FailedSteps == {"App not found", "clone failed", "build failed", "run failed", "pip failed"}
C7_FailureIsPersisted ==
    [][\A t \in tasks :
          /\ \A t2 \in tasks' :
                (t2.app_id = t.app_id /\ t2.seq = t.seq /\ t2.err # NoError)
                    => t2.pc = "set_failed" /\ t2.err \in FailedSteps
          /\ Returns(t) =>
                /\ t.pc \in {"set_running", "set_deployed", "set_unknown", "set_failed"}
                /\ (t.err # NoError /\ t.app_id \in DOMAIN apps')
                      => /\ apps'[t.app_id].status = "failed"
                         /\ apps'[t.app_id].error = t.err
                         /\ t.err # ""]_vars
\* a build step failed and the record shows it, with no deploy left in flight
C7_Witness ==
    \E a \in DOMAIN apps :
        /\ TasksOf(a) = {}
        /\ apps[a].status = "failed"
        /\ apps[a].error \in {"build failed", "run failed", "pip failed"}

\* C8: delete_app of the owner on a record without container descriptor, with
\* a stopped or with a running container succeeds, and when it returns the
\* record is gone from the store and the workspace directory does not exist.
C8_DeleteRemovesRecordAndWorkspace ==
    [][\A f \in reqs :
          (At(f, "delete_app", "delete_one") /\ f \notin reqs')
              => /\ response'.code = 200
                 /\ f.app_id \notin DOMAIN apps'
                 /\ RepoPath(f.user, f.app[1].name) \notin DOMAIN fs']_vars

\* C9: once delete_app and every deploy of a deleted app have finished, the
\* record does not exist, no workspace directory is left without a record and
\* no container created for the app is left in the runtime.
Deleted(a) == triggered[a] > 0 /\ a \notin DOMAIN apps
Settled(a) == TasksOf(a) = {} /\ \A f \in reqs : f.app_id # a
C9_DeleteReclaimsEverything ==
    (\A a \in AppIds : Deleted(a) => Settled(a)) =>
        /\ \A a \in AppIds : Deleted(a) =>
              \A c \in DOMAIN containers : containers[c].name[4] # Prefix8(a)
        /\ \A path \in DOMAIN fs :
              \E b \in DOMAIN apps : RepoPath(apps[b].user_id, apps[b].name) = path

\* C10: detect_app_type returns 'unknown' for every workspace without a marker
\* file, and a deploy that fetched such a workspace ends with status
\* 'unknown-type', never 'failed'.
Fetched(t) == t.app # None /\ t.err \notin {"App not found", "clone failed"}
C10_NoMarkerIsUnknownType ==
    [][/\ \A files \in SUBSET AllFiles :
             files \cap Markers = {} => detect_app_type(files) = "unknown"
       /\ \A t \in tasks :
             (/\ Returns(t) /\ Fetched(t)
              /\ RepoFiles(t.app[1].git_url) \cap Markers = {}
              /\ t.app_id \in DOMAIN apps')
                 => apps'[t.app_id].status = "unknown-type"]_vars
\* a deploy of a repository without marker files has ended
C10_Witness ==
    \E a \in DOMAIN apps :
        /\ RepoFiles(apps[a].git_url) \cap Markers = {}
        /\ TasksOf(a) = {}
        /\ RepoPath(apps[a].user_id, apps[a].name) \in DOMAIN fs
        /\ apps[a].app_type = "unknown"
        /\ apps[a].status = "unknown-type"

\* C11: on every set of files detect_app_type returns the type of the first
\* marker present in the order Dockerfile, package.json, requirements.txt or
\* app.py, index.html ('docker', 'nodejs', 'python' or 'telegram-bot',
\* 'static'), 'unknown' when none is present, and it leaves the workspace as
\* it found it.
MarkerOrder == <<"Dockerfile", "package.json", "requirements.txt", "app.py", "index.html">>
FirstMarker(files) ==
    IF \E i \in DOMAIN MarkerOrder : MarkerOrder[i] \in files
    THEN CHOOSE i \in DOMAIN MarkerOrder :
            /\ MarkerOrder[i] \in files
            /\ \A j \in 1..(i - 1) : MarkerOrder[j] \notin files
    ELSE 0
TypesOfMarker(i) ==
    CASE i = 1 -> {"docker"}
      [] i = 2 -> {"nodejs"}
      [] i \in {3, 4} -> {"python", "telegram-bot"}
      [] i = 5 -> {"static"}
      [] OTHER -> {"unknown"}
Detected(t) == t.pc = "set_type"
C11_DetectFollowsPrecedence ==
    [][\A t \in tasks : \A t2 \in tasks' :
          (t.pc = "detect" /\ Detected(t2))
              => /\ t2.app_type \in TypesOfMarker(FirstMarker(Workspace(t)))
                 /\ fs' = fs]_vars
\* a Dockerfile next to lower-ranked markers was classified, and so was a
\* package.json next to Python markers
C11_Witness ==
    \E t \in tasks :
        /\ Detected(t)
        /\ \/ {"Dockerfile", "package.json", "requirements.txt"} \subseteq Workspace(t) /\ t.app_type = "docker"
           \/ Workspace(t) = {"bot.py", "index.html"} /\ t.app_type = "static"

\* C12 as stated: every workspace with requirements.txt and bot.py is
\* 'telegram-bot', a workspace whose only marker is app.py is 'python', and a
\* bot.py without requirements.txt and without app.py is never 'telegram-bot'.
SixFiles == Markers \cup {"bot.py"}
C12_BotRefinement ==
    \A t \in tasks : Detected(t) =>
        /\ {"requirements.txt", "bot.py"} \subseteq Workspace(t) => t.app_type = "telegram-bot"
        /\ Workspace(t) \cap SixFiles = {"app.py"} => t.app_type = "python"
        /\ ("bot.py" \in Workspace(t) /\ Workspace(t) \cap {"requirements.txt", "app.py"} = {})
              => t.app_type # "telegram-bot"
\* C12 amended: the first part only for workspaces without Dockerfile and
\* without package.json, which rank above the Python branch.
C12_BotRefinementBelowContainerAndNode ==
    \A t \in tasks : Detected(t) =>
        /\ ({"requirements.txt", "bot.py"} \subseteq Workspace(t)
              /\ Workspace(t) \cap {"Dockerfile", "package.json"} = {})
              => t.app_type = "telegram-bot"
        /\ Workspace(t) \cap SixFiles = {"app.py"} => t.app_type = "python"
        /\ ("bot.py" \in Workspace(t) /\ Workspace(t) \cap {"requirements.txt", "app.py"} = {})
              => t.app_type # "telegram-bot"
\* requirements.txt with bot.py was classified as the bot type
C12_Witness ==
    \E t \in tasks :
        /\ Detected(t)
        /\ Workspace(t) = {"requirements.txt", "bot.py"}
        /\ t.app_type = "telegram-bot"

\* the invocation t takes a step
Acts(t) == t \in tasks /\ t \notin tasks'

\* C13: a deploy that detected 'docker', with a container runtime and with
\* image build and container run succeeding, ends with status 'running' and a
\* descriptor whose image is cloudnest/<name>:latest, whose name is
\* cloudnest-<name>-<app_id[:8]> and whose id is that of a container of the
\* runtime started with the record's env_vars and restart policy
\* 'unless-stopped'.
C13_ContainerDeployRuns ==
    [][\A t \in tasks :
          (/\ Returns(t) /\ t.app_type = "docker" /\ docker_client /\ t.err = NoError
           /\ t.app_id \in DOMAIN apps')
              => LET doc == apps'[t.app_id] IN
                 /\ doc.status = "running"
                 /\ doc.container # None
                 /\ LET c == doc.container[1] IN
                      /\ c.image = <<"cloudnest/", doc.name, ":latest">>
                      /\ c.name = <<"cloudnest-", doc.name, "-", Prefix8(t.app_id)>>
                      /\ c.id \in DOMAIN containers'
                      /\ containers'[c.id].name = c.name
                      /\ containers'[c.id].image = c.image
                      /\ containers'[c.id].environment = doc.env_vars
                      /\ containers'[c.id].restart_policy = "unless-stopped"]_vars
\* a container deploy has ended and its container runs
C13_Witness ==
    \E a \in DOMAIN apps :
        /\ TasksOf(a) = {}
        /\ apps[a].app_type = "docker"
        /\ apps[a].status = "running"
        /\ apps[a].container # None
        /\ apps[a].container[1].id \in DOMAIN containers
        /\ containers[apps[a].container[1].id].state = "running"

\* C14: without a container runtime, a deploy that detected 'docker' ends
\* with a failure outcome that carries a diagnostic (status 'failed', error
\* set), never with 'unknown-type', 'deployed' or 'running'.
C14_NoRuntimeIsReported ==
    [][\A t \in tasks :
          (Returns(t) /\ t.app_type = "docker" /\ ~docker_client /\ t.app_id \in DOMAIN apps')
              => /\ apps'[t.app_id].status = "failed"
                 /\ apps'[t.app_id].error \notin {NoError, ""}
                 /\ apps'[t.app_id].status \notin {"unknown-type", "deployed", "running"}]_vars

\* C15: a deploy that detected 'python' or 'telegram-bot' runs pip only when
\* requirements.txt exists, ends 'failed' if pip fails and 'deployed'
\* otherwise, and none of its steps starts a container, writes a container
\* descriptor or sets status 'running'.
PythonTypes == {"python", "telegram-bot"}
C15_PythonDeployStartsNoContainer ==
    [][\A t \in tasks :
          (t.app_type \in PythonTypes /\ Acts(t))
              => /\ containers' = containers
                 /\ \A a \in DOMAIN apps \cap DOMAIN apps' :
                       /\ apps'[a].container = apps[a].container
                       /\ apps'[a].status = "running" => apps[a].status = "running"
                 /\ \A t2 \in tasks' \ tasks :
                       t2.err = "pip failed" =>
                          /\ t.pc = "build"
                          /\ RepoPath(t.user_id, t.app[1].name) \in DOMAIN fs
                          /\ "requirements.txt" \in Workspace(t)
                 /\ (Returns(t) /\ t.app_id \in DOMAIN apps')
                       => IF t.err = NoError
                          THEN apps'[t.app_id].status = "deployed"
                          ELSE t.err = "pip failed" /\ apps'[t.app_id].status = "failed"]_vars
\* a Python deploy of a workspace without requirements.txt has ended
C15_Witness ==
    \E a \in DOMAIN apps :
        /\ TasksOf(a) = {}
        /\ apps[a].app_type = "python"
        /\ "requirements.txt" \notin fs[RepoPath(apps[a].user_id, apps[a].name)]
        /\ apps[a].status = "deployed"
        /\ apps[a].container = None

\* C16: when an invocation that fetched a workspace returns, the record's
\* app_type is what detect_app_type gave on the workspace it fetched, whether
\* its build succeeded or failed; an invocation whose clone failed leaves
\* app_type as it was.
C16_DetectedTypeIsPersisted ==
    [][\A t \in tasks :
          /\ (Returns(t) /\ Fetched(t) /\ t.app_id \in DOMAIN apps')
                => /\ t.app_type \in {detect_app_type(files) : files \in Revisions(t.app[1].git_url)}
                   /\ apps'[t.app_id].app_type = t.app_type
          /\ (Acts(t) /\ (t.err = "clone failed" \/ \E t2 \in tasks' \ tasks : t2.err = "clone failed"))
                => \A a \in DOMAIN apps \cap DOMAIN apps' : apps'[a].app_type = apps[a].app_type]_vars

\* C17: after a deploy that ends in 'running', 'deployed' or 'unknown-type',
\* and after a stop_app or start_app that updated the record, the record's
\* error field is null, whatever an earlier deploy left there.
C17_ErrorClearedOnSuccess ==
    [][/\ \A t \in tasks :
             (Returns(t) /\ t.err = NoError /\ t.app_id \in DOMAIN apps')
                 => apps'[t.app_id].error = NoError
       /\ \A f \in reqs :
             (/\ f.kind \in {"stop_app", "start_app"} /\ f.pc = "update_one" /\ f \notin reqs'
              /\ f.app_id \in DOMAIN apps')
                 => apps'[f.app_id].error = NoError]_vars

\* C18: the store never holds two app records with the same user_id and the
\* same name, also when two create_app requests interleave.
C18_NameUniquePerOwner ==
    \A a \in DOMAIN apps, b \in DOMAIN apps :
        (apps[a].user_id = apps[b].user_id /\ apps[a].name = apps[b].name) => a = b

\* C19: delete_app first stops and removes the container of the descriptor,
\* then removes the workspace directory, then removes the record; a failed
\* stop or remove of the container stops neither of the two later steps.
C19_DeleteOrder ==
    [][\A f \in reqs :
          (f.kind = "delete_app" /\ f \notin reqs')
              => CASE f.pc = "remove" ->
                        /\ [f EXCEPT !.pc = "rmtree"] \in reqs'
                        /\ \A c \in DOMAIN containers :
                              (f.app[1].container = None \/ c # f.app[1].container[1].id)
                                  => c \in DOMAIN containers' /\ containers'[c] = containers[c]
                        /\ UNCHANGED <<apps, fs>>
                   [] f.pc = "rmtree" ->
                        /\ [f EXCEPT !.pc = "delete_one"] \in reqs'
                        /\ RepoPath(f.user, f.app[1].name) \notin DOMAIN fs'
                        /\ UNCHANGED <<apps, containers>>
                   [] OTHER ->
                        /\ f.pc = "delete_one"
                        /\ f.app_id \notin DOMAIN apps'
                        /\ response'.kind = "delete_app" /\ response'.code = 200
                        /\ UNCHANGED <<fs, containers>>]_vars
\* the container of the descriptor outlived a failed stop or remove, and the
\* handler has removed the workspace and is about to remove the record
C19_Witness ==
    \E f \in reqs :
        /\ f.kind = "delete_app" /\ f.pc = "delete_one"
        /\ docker_client
        /\ f.app[1].container # None
        /\ f.app[1].container[1].id \in DOMAIN containers
        /\ RepoPath(f.user, f.app[1].name) \notin DOMAIN fs
        /\ f.app_id \in DOMAIN apps

\* C20: a clone leaves in the workspace exactly the files of the revision it
\* fetched, and at the build step of an invocation the workspace still holds
\* exactly the files that invocation fetched.
C20_WorkspaceIsOwnRevision ==
    [][\A t \in tasks :
          /\ (t.pc = "clone" /\ Acts(t))
                => \A t2 \in tasks' \ tasks :
                      t2.err = NoError =>
                         /\ RepoPath(t.user_id, t.app[1].name) \in DOMAIN fs'
                         /\ Workspace(t)' \in Revisions(t.app[1].git_url)
                         /\ detect_app_type(Workspace(t)') = t2.app_type
          /\ (t.pc = "build" /\ Acts(t))
                => /\ RepoPath(t.user_id, t.app[1].name) \in DOMAIN fs
                   /\ Workspace(t) \in Revisions(t.app[1].git_url)
                   /\ detect_app_type(Workspace(t)) = t.app_type]_vars

\* C21: deploy_app, stop_app, start_app, get_app_status, get_app_logs and
\* delete_app called by a user who does not own the record answer 404 and
\* change neither the record, nor a container, nor the workspace, and start
\* no deploy; build_and_deploy_app called with a user id that does not match
\* the record clones nothing, builds nothing and starts no container.
OwnedRoutes == {"deploy_app", "stop_app", "start_app", "get_app_status", "get_app_logs", "delete_app"}
\* a request of this kind for app a by user u arrives in this step
IssuedBy(kind, a, u) ==
    /\ served' = served + 1
    /\ \/ \E f \in reqs' \ reqs : f.kind = kind /\ f.app_id = a /\ f.user = u
       \/ /\ reqs' = reqs
          /\ response'.kind = kind /\ response'.app_id = a /\ response'.user = u
          /\ tasks' = tasks \/ response'.code # 404
C21_ScopedByOwner ==
    [][/\ \A a \in DOMAIN apps, kind \in OwnedRoutes, u \in Users :
             (IssuedBy(kind, a, u) /\ apps[a].user_id # u)
                 => /\ reqs' = reqs
                    /\ response' = Return(kind, u, a, 404, "App not found")
                    /\ UNCHANGED <<apps, fs, containers, tasks>>
       /\ \A t \in tasks :
             (/\ Acts(t)
              /\ \/ t.pc = "find" /\ t.app_id \in DOMAIN apps /\ apps[t.app_id].user_id # t.user_id
                 \/ t.err = "App not found")
                 => /\ UNCHANGED <<fs, containers>>
                    /\ \A t2 \in tasks' \ tasks : t2.pc = "set_failed" /\ t2.err = "App not found"]_vars
\* a user who does not own an existing record has got the 404
C21_Witness ==
    /\ response.kind \in OwnedRoutes
    /\ response.app_id \in DOMAIN apps
    /\ apps[response.app_id].user_id # response.user
    /\ response.code = 404

\* C22: stop_app and start_app of the owner on a record without container
\* descriptor, or without a container runtime, answer 200 with the message
\* that no container was found and change nothing.
C22_NoContainerIsReported ==
    [][\A a \in DOMAIN apps, kind \in {"stop_app", "start_app"} :
          (/\ IssuedBy(kind, a, apps[a].user_id)
           /\ apps[a].container = None \/ ~docker_client)
              => /\ reqs' = reqs
                 /\ response'.code = 200
                 /\ response'.message = IF kind = "stop_app" THEN "No running container found"
                                                             ELSE "No container found"
                 /\ UNCHANGED <<apps, fs, containers, tasks>>]_vars
\* the owner was told that the record has no container
C22_Witness ==
    /\ response.kind \in {"stop_app", "start_app"}
    /\ response.code = 200
    /\ response.message \in {"No running container found", "No container found"}
    /\ response.app_id \in DOMAIN apps
    /\ apps[response.app_id].user_id = response.user
    /\ apps[response.app_id].container = None

\* C23: when containers.get, stop() or start() raises in stop_app or
\* start_app, the caller gets the error (500, 'Failed to stop app' or 'Failed
\* to start app') and the record keeps its status and container descriptor.
C23_RuntimeErrorIsReturned ==
    [][\A f \in reqs :
          (/\ f.kind \in {"stop_app", "start_app"} /\ f.pc = "docker"
           /\ f \notin reqs' /\ [f EXCEPT !.pc = "update_one"] \notin reqs')
              => /\ response' = Return(f.kind, f.user, f.app_id, 500,
                                        IF f.kind = "stop_app" THEN "Failed to stop app"
                                                               ELSE "Failed to start app")
                 /\ apps' = apps]_vars
\* a stop or start failed in the runtime and the record is as it was read
C23_Witness ==
    /\ response.kind \in {"stop_app", "start_app"}
    /\ response.code = 500
    /\ response.app_id \in DOMAIN apps
    /\ apps[response.app_id].container # None
    /\ apps[response.app_id].status = "running"

\* C24: every triggered build_and_deploy_app invocation terminates (whenever
\* invocations are in flight, a state with none in flight follows), and when
\* no invocation of an app is left the status of its record is 'running',
\* 'deployed', 'unknown-type', 'failed' or 'stopped', never 'pending' or
\* 'building'.
FinalStatuses == {"running", "deployed", "unknown-type", "failed", "stopped"}
C25_NoOrphanedContainers ==
    \A c \in DOMAIN containers :
        \/ containers[c].state = "created"
        \/ \E a \in DOMAIN apps :
              apps[a].container # None /\ apps[a].container[1].id = c
        \/ \E t \in tasks :
              /\ t.app_id \in DOMAIN apps
              /\ t.container_info # None /\ t.container_info[1].id = c

====
